---- MODULE Spec2Model ----
(***************************************************************************)
(* TestTarget (test_driver.py): a background receiver thread drains a      *)
(* connector into rx_buffer while the caller's thread blocks in wait_any / *)
(* wait_str / wait_multi_str on a counting semaphore, and stop() shuts the *)
(* engine down.  The engine takes no lock, so every statement that touches *)
(* shared state is a step of its own.                                      *)
(***************************************************************************)
EXTENDS Integers, Sequences, FiniteSets, TLC

VARIABLES
    active,             \* self.active
    conn,               \* the connector: "init", "open" or "closed"
    connected,          \* self.connector.connected
    rx_buffer,          \* self.rx_buffer
    wait_strings,       \* self.wait_strings: None, or a list of strings
    semaphore,          \* the value of self.semaphore
    found_str,          \* self.found_str
    log,                \* what the last step handed to self.log, in order
    flush_before_wait,  \* self.flush_before_wait
    split_lines,        \* self.split_lines
    rpc,                \* self.thread: where receiver() stands
    lines,              \* receiver(): the lines of the chunk still to handle
    pc,                 \* the caller's thread: where its call stands
    call,               \* the caller's thread: the call and its arguments
    count,              \* wait_str(): the local count
    result,             \* wait_*(): the local result ("unset" while unbound)
    ret,                \* the caller's thread: what the call returned
    spc,                \* the thread that calls stop(): where it stands
    nrecv,              \* chunks the transport has delivered so far
    w_begin,            \* rx_buffer when the call in progress was made
    w_new               \* the units appended to rx_buffer since then

vars == <<active, conn, connected, rx_buffer, wait_strings, semaphore, found_str, log,
          flush_before_wait, split_lines, rpc, lines, pc, call, count, result,
          ret, spc, nrecv, w_begin, w_new>>

flags == <<flush_before_wait, split_lines>>
local == <<count, result>>

----------------------------------------------------------------------------
(* Bounds and input sets *)

MaxChunks == 1
MaxCount == 2

NL == "\n"
ChunkSet == {<<"X">>, <<"Y", NL, "X">>, <<>>}
StringSet == {<<"X">>, <<"Y">>}
StringsSet == {<< <<"X">>, <<"Y">> >>}
CountSet == 0 .. MaxCount

None == [none |-> TRUE]
Some(v) == [none |-> FALSE, val |-> v]

NoCall == [op |-> "none"]

\* the message of send / send_str
Payload == "GET"

----------------------------------------------------------------------------
(* Pure helpers *)

\* Python: string in line
In(string, line) ==
    \E i \in 0 .. (Len(line) - Len(string)) :
        SubSeq(line, i + 1, i + Len(string)) = string

\* Python: data.splitlines()
RECURSIVE splitlines(_)
splitlines(data) ==
    IF data = <<>> THEN <<>>
    ELSE LET brk == {i \in 1 .. Len(data) : data[i] = NL} IN
         IF brk = {} THEN <<data>>
         ELSE LET i == CHOOSE k \in brk : \A j \in brk : k <= j IN
              <<SubSeq(data, 1, i - 1)>> \o splitlines(SubSeq(data, i + 1, Len(data)))

\* for string in strings: if string in line
MatchesAny(strings, line) ==
    \E k \in 1 .. Len(strings) : In(strings[k], line)

RECURSIVE FindStrFrom(_, _, _)
FindStrFrom(string, cnt, buf) ==
    IF buf = <<>> THEN [count |-> cnt, found |-> None]
    ELSE IF In(string, Head(buf))
         THEN IF cnt - 1 = 0
              THEN [count |-> 0, found |-> Some(Head(buf))]
              ELSE FindStrFrom(string, cnt - 1, Tail(buf))
         ELSE FindStrFrom(string, cnt, Tail(buf))

find_str(string, cnt) == FindStrFrom(string, cnt, rx_buffer)

RECURSIVE private_find_multi_str(_, _)
private_find_multi_str(strings, buf) ==
    IF buf = <<>> THEN [result |-> FALSE, found |-> None]
    ELSE IF MatchesAny(strings, Head(buf))
         THEN [result |-> TRUE, found |-> Some(Head(buf))]
         ELSE private_find_multi_str(strings, Tail(buf))

\* self.log(message, info)
Logged(info, message) == <<[info |-> info, message |-> message]>>
LoggedRX(line) == <<[info |-> "RX", unit |-> line]>>

\* the same records n times over
RECURSIVE Times(_, _)
Times(n, records) == IF n <= 0 THEN <<>> ELSE records \o Times(n - 1, records)

----------------------------------------------------------------------------
Init ==
    /\ active = FALSE
    /\ conn = "init"
    /\ connected = FALSE
    /\ rx_buffer = <<>>
    /\ wait_strings = Some(<<>>)
    /\ semaphore = 0
    /\ found_str = None
    /\ log = <<>>
    /\ flush_before_wait \in BOOLEAN
    /\ split_lines \in BOOLEAN
    /\ rpc = "new"
    /\ lines = <<>>
    /\ pc = "idle"
    /\ call = NoCall
    /\ count = 0
    /\ result = "unset"
    /\ ret = "none"
    /\ spc = "idle"
    /\ nrecv = 0
    /\ w_begin = <<>>
    /\ w_new = <<>>

----------------------------------------------------------------------------
(* The connector *)

\* connector.recv_str(): a chunk while the connection is open and the peer
\* still sends, None when the peer closed, a read failed or close() was called
recv_str ==
    {None} \cup (IF conn = "open" /\ nrecv < MaxChunks
                 THEN {Some(c) : c \in ChunkSet} ELSE {})

----------------------------------------------------------------------------
(* receiver(), the target of self.thread *)

\* self.log('receiver started', '--')
receiver_started ==
    /\ rpc = "started"
    /\ log' = Logged("--", "receiver started")
    /\ rpc' = "loop"
    /\ UNCHANGED <<active, conn, rx_buffer, wait_strings, semaphore, found_str,
                   flags, connected, lines, pc, call, local, ret, spc, nrecv, w_begin, w_new>>

\* while self.active: ... ; self.log('receiver stopped', '--')
receiver_loop ==
    /\ rpc = "loop"
    /\ IF active
       THEN rpc' = "recv" /\ log' = <<>>
       ELSE rpc' = "done" /\ log' = Logged("--", "receiver stopped")
    /\ UNCHANGED <<active, conn, rx_buffer, wait_strings, semaphore, found_str,
                   flags, connected, lines, pc, call, local, ret, spc, nrecv, w_begin, w_new>>

\* data = self.connector.recv_str(); if data is None: ... break
receiver_recv_none ==
    /\ rpc = "recv"
    /\ None \in recv_str
    /\ log' = (IF active THEN Logged("ER", "failed to receive") ELSE <<>>)
                  \o Logged("--", "receiver stopped")
    /\ rpc' = "done"
    /\ UNCHANGED <<active, conn, rx_buffer, wait_strings, semaphore, found_str,
                   flags, connected, lines, pc, call, local, ret, spc, nrecv, w_begin, w_new>>

\* data = self.connector.recv_str(); lines = ...; if self.wait_strings is None
receiver_recv_data ==
    /\ rpc = "recv"
    /\ \E data \in recv_str \ {None} :
          LET ls == IF split_lines THEN splitlines(data.val) ELSE <<data.val>> IN
          /\ lines' = ls
          /\ rpc' = IF wait_strings = None THEN "any_release"
                    ELSE IF ls = <<>> THEN "loop" ELSE "line"
    /\ nrecv' = nrecv + 1
    /\ log' = <<>>
    /\ UNCHANGED <<active, conn, rx_buffer, wait_strings, semaphore, found_str,
                   flags, connected, pc, call, local, ret, spc, w_begin, w_new>>

\* Waiting any: self.semaphore.release()
receiver_any_release ==
    /\ rpc = "any_release"
    /\ semaphore' = semaphore + 1
    /\ rpc' = "any_found"
    /\ log' = <<>>
    /\ UNCHANGED <<active, conn, rx_buffer, wait_strings, found_str, flags, connected,
                   lines, pc, call, local, ret, spc, nrecv, w_begin, w_new>>

\* Waiting any: self.found_str = lines[0] (IndexError ends the thread)
receiver_any_found ==
    /\ rpc = "any_found"
    /\ IF lines = <<>>
       THEN rpc' = "crashed" /\ found_str' = found_str /\ lines' = <<>>
       ELSE rpc' = "any_extend" /\ found_str' = Some(lines[1]) /\ lines' = lines
    /\ log' = <<>>
    /\ UNCHANGED <<active, conn, rx_buffer, wait_strings, semaphore, flags, connected,
                   pc, call, local, ret, spc, nrecv, w_begin, w_new>>

\* Waiting any: self.rx_buffer.extend(lines); continue
receiver_any_extend ==
    /\ rpc = "any_extend"
    /\ rx_buffer' = rx_buffer \o lines
    /\ w_new' = (IF pc \in {"idle", "ret"} THEN w_new ELSE w_new \o lines)
    /\ lines' = <<>>
    /\ rpc' = "loop"
    /\ log' = <<>>
    /\ UNCHANGED <<active, conn, wait_strings, semaphore, found_str, flags, connected,
                   pc, call, local, ret, spc, nrecv, w_begin>>

\* for line in lines: self.log(line, 'RX'); self.rx_buffer.append(line)
receiver_line ==
    /\ rpc = "line"
    /\ log' = LoggedRX(Head(lines))
    /\ rx_buffer' = Append(rx_buffer, Head(lines))
    /\ w_new' = (IF pc \in {"idle", "ret"} THEN w_new ELSE Append(w_new, Head(lines)))
    /\ rpc' = "match"
    /\ UNCHANGED <<active, conn, wait_strings, semaphore, found_str, flags, connected,
                   lines, pc, call, local, ret, spc, nrecv, w_begin>>

\* for string in self.wait_strings: if string in line
\* (TypeError ends the thread when wait_strings is None by now)
receiver_match ==
    /\ rpc = "match"
    /\ IF wait_strings = None
       THEN rpc' = "crashed" /\ lines' = <<>>
       ELSE IF MatchesAny(wait_strings.val, Head(lines))
            THEN rpc' = "found" /\ lines' = lines
            ELSE /\ lines' = Tail(lines)
                 /\ rpc' = IF Tail(lines) = <<>> THEN "loop" ELSE "line"
    /\ log' = <<>>
    /\ UNCHANGED <<active, conn, rx_buffer, wait_strings, semaphore, found_str,
                   flags, connected, pc, call, local, ret, spc, nrecv, w_begin, w_new>>

\* self.found_str = line
receiver_found ==
    /\ rpc = "found"
    /\ found_str' = Some(Head(lines))
    /\ rpc' = "release"
    /\ log' = <<>>
    /\ UNCHANGED <<active, conn, rx_buffer, wait_strings, semaphore, flags, connected,
                   lines, pc, call, local, ret, spc, nrecv, w_begin, w_new>>

\* self.semaphore.release(); break
receiver_release ==
    /\ rpc = "release"
    /\ semaphore' = semaphore + 1
    /\ lines' = Tail(lines)
    /\ rpc' = IF Tail(lines) = <<>> THEN "loop" ELSE "line"
    /\ log' = <<>>
    /\ UNCHANGED <<active, conn, rx_buffer, wait_strings, found_str, flags, connected,
                   pc, call, local, ret, spc, nrecv, w_begin, w_new>>

receiver ==
    \/ receiver_started
    \/ receiver_loop
    \/ receiver_recv_none
    \/ receiver_recv_data
    \/ receiver_any_release
    \/ receiver_any_found
    \/ receiver_any_extend
    \/ receiver_line
    \/ receiver_match
    \/ receiver_found
    \/ receiver_release

----------------------------------------------------------------------------
(* The caller's thread *)

\* A call begins: its arguments, and what the buffer held when it was made.
Begin(c) ==
    /\ call' = c
    /\ w_begin' = rx_buffer
    /\ w_new' = <<>>

\* start() with self.active = True moved ahead of the open
start_activates_first ==
    /\ pc = "idle"
    /\ spc \in {"idle", "ret"}
    /\ \E ok \in BOOLEAN :
          /\ active' = TRUE
          /\ IF ~ok
             THEN /\ log' = Logged("ER", "failed to connect")
                  /\ ret' = "False"
                  /\ UNCHANGED <<conn, rpc>>
             ELSE /\ conn' = "open"
                  /\ rpc' = IF rpc = "new" THEN "started" ELSE rpc
                  /\ ret' = IF rpc = "new" THEN "True" ELSE "Raise"
                  /\ log' = <<>>
    /\ Begin([op |-> "start"])
    /\ pc' = "ret"
    /\ UNCHANGED <<rx_buffer, wait_strings, semaphore, found_str, flags, connected, lines,
                   local, spc, nrecv>>

\* start(); connector.open() succeeds or fails.  Thread.start() raises
\* RuntimeError when the thread was started before.
start ==
    /\ pc = "idle"
    /\ spc \in {"idle", "ret"}
    /\ \E ok \in BOOLEAN :
          IF ~ok
          THEN /\ log' = Logged("ER", "failed to connect")
               /\ ret' = "False"
               /\ UNCHANGED <<conn, active, rpc>>
          ELSE /\ conn' = "open"
               /\ active' = TRUE
               /\ rpc' = IF rpc = "new" THEN "started" ELSE rpc
               /\ ret' = IF rpc = "new" THEN "True" ELSE "Raise"
               /\ log' = <<>>
    /\ Begin([op |-> "start"])
    /\ pc' = "ret"
    /\ UNCHANGED <<rx_buffer, wait_strings, semaphore, found_str, flags, connected, lines,
                   local, spc, nrecv>>

\* flush_rx()
flush_rx ==
    /\ pc = "idle"
    /\ rx_buffer' = <<>>
    /\ Begin([op |-> "flush_rx"])
    /\ ret' = "None"
    /\ pc' = "ret"
    /\ log' = <<>>
    /\ UNCHANGED <<active, conn, wait_strings, semaphore, found_str, flags, connected,
                   rpc, lines, local, spc, nrecv>>

\* connector.send_str(message) / connector.send(message): socket.send raises
\* socket.error unless the connection is open and the peer takes the data; the
\* error is caught, and logged if self.connected
connector_send(failed) ==
    IF failed /\ connected THEN Logged("ER:tcp", "socket.error") ELSE <<>>

\* send(message) / send_str(message): self.log(message, 'TX'), then the
\* connector's send
send_str ==
    /\ pc = "idle"
    /\ \E op \in {"send", "send_str"}, failed \in BOOLEAN :
          /\ (conn # "open") => failed
          /\ Begin([op |-> op, failed |-> failed])
          /\ log' = Logged("TX", Payload) \o connector_send(failed)
    /\ ret' = "None"
    /\ pc' = "ret"
    /\ UNCHANGED <<active, conn, connected, rx_buffer, wait_strings, semaphore,
                   found_str, flags, rpc, lines, local, spc, nrecv>>

\* wait_any(timeout): if len(self.rx_buffer) > 0: ... return True
wait_any_call ==
    /\ pc = "idle"
    /\ \E tmo \in BOOLEAN : Begin([op |-> "wait_any", tmo |-> tmo])
    /\ IF Len(rx_buffer) > 0
       THEN found_str' = Some(rx_buffer[1]) /\ ret' = "True" /\ pc' = "ret"
       ELSE found_str' = found_str /\ ret' = ret /\ pc' = "drain"
    /\ log' = <<>>
    /\ UNCHANGED <<active, conn, rx_buffer, wait_strings, semaphore, flags, connected,
                   rpc, lines, local, spc, nrecv>>

\* wait_str(string, count, timeout): if self.flush_before_wait: self.flush_rx()
\* otherwise straight to count = self.find_str(string, count)
wait_str_call ==
    /\ pc = "idle"
    /\ \E string \in StringSet, cnt \in CountSet, tmo \in BOOLEAN :
          /\ Begin([op |-> "wait_str", string |-> string, count |-> cnt,
                    tmo |-> tmo])
          /\ IF flush_before_wait
             THEN /\ rx_buffer' = <<>>
                  /\ count' = cnt
                  /\ found_str' = found_str
                  /\ pc' = "find"
             ELSE /\ rx_buffer' = rx_buffer
                  /\ count' = find_str(string, cnt).count
                  /\ found_str' = find_str(string, cnt).found
                  /\ pc' = "drain"
    /\ log' = <<>>
    /\ UNCHANGED <<active, conn, wait_strings, semaphore, flags, connected, rpc,
                   lines, result, ret, spc, nrecv>>

\* count = self.find_str(string, count), after the flush
wait_str_find ==
    /\ pc = "find"
    /\ count' = find_str(call.string, count).count
    /\ found_str' = find_str(call.string, count).found
    /\ pc' = "drain"
    /\ log' = <<>>
    /\ UNCHANGED <<active, conn, rx_buffer, wait_strings, semaphore, flags, connected,
                   rpc, lines, call, result, ret, spc, nrecv, w_begin, w_new>>

\* wait_multi_str(strings, timeout): flush_rx(), or the scan of the buffer
wait_multi_str_call ==
    /\ pc = "idle"
    /\ \E strings \in StringsSet, tmo \in BOOLEAN :
          /\ Begin([op |-> "wait_multi_str", strings |-> strings, tmo |-> tmo])
          /\ IF flush_before_wait
             THEN /\ rx_buffer' = <<>>
                  /\ found_str' = found_str
                  /\ ret' = ret
                  /\ pc' = "drain"
             ELSE LET f == private_find_multi_str(strings, rx_buffer) IN
                  /\ rx_buffer' = rx_buffer
                  /\ found_str' = f.found
                  /\ ret' = IF f.result THEN "True" ELSE ret
                  /\ pc' = IF f.result THEN "ret" ELSE "drain"
    /\ log' = <<>>
    /\ UNCHANGED <<active, conn, wait_strings, semaphore, flags, connected, rpc,
                   lines, local, spc, nrecv>>

\* __flush_semaphore(): while self.semaphore.acquire(blocking=False): log
flush_semaphore ==
    /\ pc = "drain"
    /\ semaphore' = 0
    /\ log' = Times(semaphore, Logged("WR", "discard event"))
    /\ pc' = "arm"
    /\ UNCHANGED <<active, conn, rx_buffer, wait_strings, found_str, flags, connected, rpc,
                   lines, call, local, ret, spc, nrecv, w_begin, w_new>>

\* wait_any: self.wait_strings = None
wait_any_arm ==
    /\ pc = "arm"
    /\ call.op = "wait_any"
    /\ wait_strings' = None
    /\ pc' = "acquire"
    /\ log' = <<>>
    /\ UNCHANGED <<active, conn, rx_buffer, semaphore, found_str, flags, connected,
                   rpc, lines, call, local, ret, spc, nrecv, w_begin, w_new>>

\* wait_str: self.wait_strings.append(string)
wait_str_arm ==
    /\ pc = "arm"
    /\ call.op = "wait_str"
    /\ wait_strings' = Some(Append(wait_strings.val, call.string))
    /\ pc' = "check"
    /\ log' = <<>>
    /\ UNCHANGED <<active, conn, rx_buffer, semaphore, found_str, flags, connected,
                   rpc, lines, call, local, ret, spc, nrecv, w_begin, w_new>>

\* wait_multi_str: self.wait_strings = strings
wait_multi_str_arm ==
    /\ pc = "arm"
    /\ call.op = "wait_multi_str"
    /\ wait_strings' = Some(call.strings)
    /\ pc' = "acquire"
    /\ log' = <<>>
    /\ UNCHANGED <<active, conn, rx_buffer, semaphore, found_str, flags, connected,
                   rpc, lines, call, local, ret, spc, nrecv, w_begin, w_new>>

\* wait_str: while count > 0 and self.active
wait_str_check ==
    /\ pc = "check"
    /\ pc' = IF count > 0 /\ active THEN "acquire" ELSE "reset"
    /\ log' = <<>>
    /\ UNCHANGED <<active, conn, rx_buffer, wait_strings, semaphore, found_str,
                   flags, connected, rpc, lines, call, local, ret, spc, nrecv,
                   w_begin, w_new>>

\* result = self.semaphore.acquire(timeout=timeout), a signal is there
\* (wait_str: count -= 1 and back to the loop's condition)
acquire ==
    /\ pc = "acquire"
    /\ semaphore > 0
    /\ semaphore' = semaphore - 1
    /\ result' = "True"
    /\ count' = IF call.op = "wait_str" THEN count - 1 ELSE count
    /\ pc' = IF call.op = "wait_str" THEN "check" ELSE "reset"
    /\ log' = <<>>
    /\ UNCHANGED <<active, conn, rx_buffer, wait_strings, found_str, flags, connected,
                   rpc, lines, call, ret, spc, nrecv, w_begin, w_new>>

\* result = self.semaphore.acquire(timeout=timeout), the timeout elapses
\* (wait_str: break)
acquire_timeout ==
    /\ pc = "acquire"
    /\ call.tmo
    /\ semaphore = 0
    /\ result' = "False"
    /\ pc' = "reset"
    /\ log' = <<>>
    /\ UNCHANGED <<active, conn, rx_buffer, wait_strings, semaphore, found_str,
                   flags, connected, rpc, lines, call, count, ret, spc, nrecv,
                   w_begin, w_new>>

\* self.wait_strings = []; return result
\* (UnboundLocalError when wait_str never assigned result)
wait_reset ==
    /\ pc = "reset"
    /\ wait_strings' = Some(<<>>)
    /\ ret' = IF result = "unset" THEN "Raise" ELSE result
    /\ count' = 0
    /\ result' = "unset"
    /\ pc' = "ret"
    /\ log' = <<>>
    /\ UNCHANGED <<active, conn, rx_buffer, semaphore, found_str, flags, connected,
                   rpc, lines, call, spc, nrecv, w_begin, w_new>>

\* The caller has its answer and is free to make the next call.
return ==
    /\ pc = "ret"
    /\ pc' = "idle"
    /\ call' = NoCall
    /\ count' = 0
    /\ result' = "unset"
    /\ ret' = "none"
    /\ w_begin' = <<>>
    /\ w_new' = <<>>
    /\ log' = <<>>
    /\ UNCHANGED <<active, conn, rx_buffer, wait_strings, semaphore, found_str,
                   flags, connected, rpc, lines, spc, nrecv>>

caller ==
    \/ start
    \/ flush_rx
    \/ send_str
    \/ wait_any_call
    \/ wait_str_call
    \/ wait_str_find
    \/ wait_multi_str_call
    \/ flush_semaphore
    \/ wait_any_arm
    \/ wait_str_arm
    \/ wait_multi_str_arm
    \/ wait_str_check
    \/ acquire
    \/ acquire_timeout
    \/ wait_reset
    \/ return

----------------------------------------------------------------------------
(* stop(), called by the caller's thread between two calls (the caller is  *)
(* then inside stop() until it returns) or by a second thread while the    *)
(* caller's thread is blocked in a wait's acquire                          *)

\* if self.active: self.active = False
stop_call ==
    /\ spc \in {"idle", "ret"}
    /\ pc \in {"idle", "acquire"}
    /\ IF active
       THEN /\ active' = FALSE
            /\ spc' = "close"
            /\ pc' = IF pc = "idle" THEN "stop" ELSE pc
            /\ ret' = ret
       ELSE /\ active' = active
            /\ spc' = spc
            /\ pc' = IF pc = "idle" THEN "ret" ELSE pc
            /\ ret' = IF pc = "idle" THEN "None" ELSE ret
    /\ call' = IF pc = "idle" THEN [op |-> "stop"] ELSE call
    /\ log' = <<>>
    /\ UNCHANGED <<conn, rx_buffer, wait_strings, semaphore, found_str, flags, connected,
                   rpc, lines, local, nrecv, w_begin, w_new>>

\* stop() without self.connector.close()
stop_close_skipped ==
    /\ spc = "close"
    /\ spc' = "join"
    /\ log' = <<>>
    /\ UNCHANGED <<active, conn, rx_buffer, wait_strings, semaphore, found_str,
                   flags, connected, rpc, lines, pc, call, local, ret, nrecv, w_begin,
                   w_new>>

\* self.connector.close(): self.connected = False; self.socket.close()
stop_close ==
    /\ spc = "close"
    /\ connected' = FALSE
    /\ conn' = "closed"
    /\ spc' = "join"
    /\ log' = <<>>
    /\ UNCHANGED <<active, rx_buffer, wait_strings, semaphore, found_str, flags,
                   rpc, lines, pc, call, local, ret, nrecv, w_begin, w_new>>

\* stop() without waiting in self.thread.join()
stop_join_nowait ==
    /\ spc = "join"
    /\ spc' = "clear"
    /\ log' = <<>>
    /\ UNCHANGED <<active, conn, rx_buffer, wait_strings, semaphore, found_str,
                   flags, connected, rpc, lines, pc, call, local, ret, nrecv, w_begin,
                   w_new>>

\* self.thread.join()
stop_join ==
    /\ spc = "join"
    /\ rpc \in {"done", "crashed"}
    /\ spc' = "clear"
    /\ log' = <<>>
    /\ UNCHANGED <<active, conn, rx_buffer, wait_strings, semaphore, found_str,
                   flags, connected, rpc, lines, pc, call, local, ret, nrecv, w_begin,
                   w_new>>

\* self.rx_buffer = [], and stop() returns
stop_clear ==
    /\ spc = "clear"
    /\ rx_buffer' = <<>>
    /\ spc' = "ret"
    /\ pc' = IF pc = "stop" THEN "ret" ELSE pc
    /\ ret' = IF pc = "stop" THEN "None" ELSE ret
    /\ log' = <<>>
    /\ UNCHANGED <<active, conn, wait_strings, semaphore, found_str, flags, connected,
                   rpc, lines, call, local, nrecv, w_begin, w_new>>

stop ==
    \/ stop_call
    \/ stop_close
    \/ stop_join
    \/ stop_clear

----------------------------------------------------------------------------
Next == caller \/ receiver \/ stop

Spec == Init /\ [][Next]_vars

\* The scheduler lets a runnable thread run: the receiver outside a blocking
\* recv_str() on an open connection, and stop() once it was called.
receiver_runs ==
    \/ (rpc # "recv" /\ receiver)
    \/ (conn # "open" /\ receiver_recv_none)

stop_runs == stop_close \/ stop_join \/ stop_clear

FairSpec == Spec /\ WF_vars(receiver_runs) /\ WF_vars(stop_runs)

----------------------------------------------------------------------------
(* What the properties speak of *)

\* the number of units that contain string
Matching(string, units) ==
    Cardinality({i \in 1 .. Len(units) : In(string, units[i])})

\* the k-th unit that contains string
KthMatch(string, k, units) ==
    LET idx == {i \in 1 .. Len(units) : In(string, units[i])}
        i == CHOOSE n \in idx : Cardinality({j \in idx : j <= n}) = k
    IN  units[i]

\* the first unit that contains one of strings
FirstMatch(strings, units) ==
    LET idx == {i \in 1 .. Len(units) : MatchesAny(strings, units[i])}
        i == CHOOSE n \in idx : \A j \in idx : n <= j
    IN  units[i]

HasMatch(strings, units) ==
    \E i \in 1 .. Len(units) : MatchesAny(strings, units[i])

\* the step with which the caller's call returns
Returns(op) == pc # "ret" /\ pc' = "ret" /\ call'.op = op

\* the receiver thread has ended
Finished == rpc \in {"done", "crashed"}

\* the receiver is alive and between two chunks: nothing of what it received
\* is still to be appended, matched or signalled
BetweenChunks == rpc \in {"loop", "recv"}

\* the receiver holds a chunk in "waiting any" mode that it has signalled and
\* is about to append
InFlight == rpc \in {"any_found", "any_extend"}

----------------------------------------------------------------------------
(* C1 *)

\* what the wait in progress waits for has arrived since it was called
ArrivedSinceCall ==
    CASE call.op = "wait_any" -> w_new # <<>>
      [] call.op = "wait_multi_str" -> HasMatch(call.strings, w_new)
      [] call.op = "wait_str" ->
            call.count > 0 /\ Matching(call.string, w_new) >= call.count
      [] OTHER -> FALSE

\* C1: no lost wakeup: a wait without timeout never sits blocked on the
\* semaphore, with no signal pending and none on its way, while the units it
\* waits for have all been appended since the call began.
C1_NoLostWakeup ==
    ~ ( /\ pc = "acquire"
        /\ ~call.tmo
        /\ semaphore = 0
        /\ active
        /\ spc = "idle"
        /\ BetweenChunks
        /\ ArrivedSinceCall )

----------------------------------------------------------------------------
(* C2 *)

\* C2: wait_str(target, count=K) returns true only if at least K units that
\* contain target were in the buffer when it was called or arrived since.
C2_WaitStrCountsUnits ==
    (pc = "ret" /\ call.op = "wait_str" /\ ret = "True")
        => Matching(call.string, w_begin \o w_new) >= call.count

----------------------------------------------------------------------------
(* C3 *)

\* the buffer held count units with string when wait_str was called, or count
\* was zero or negative
SatisfiedAtCall(c, buf) ==
    c.count <= 0 \/ Matching(c.string, buf) >= c.count

\* C3: a wait_str whose count is satisfied when it is called returns true, and
\* found_str is then the buffered unit at which the count was reached.
C3_SatisfiedReturnsTrue ==
    [][ ( /\ Returns("wait_str")
          /\ ~flush_before_wait
          /\ SatisfiedAtCall(call', w_begin') )
        => /\ ret' = "True"
           /\ call'.count > 0 =>
                found_str' = Some(KthMatch(call'.string, call'.count, w_begin'))
      ]_vars

----------------------------------------------------------------------------
(* C4 *)

\* C4: stop() on an active engine returns, with the receiver thread ended,
\* wherever the receiver stood and whether or not a wait is blocked.
C4_StopTerminates ==
    (spc = "close") ~> (spc = "ret" /\ Finished)

\* stop() has returned while a wait_str without timeout is still blocked
C4_Witness ==
    /\ spc = "ret"
    /\ Finished
    /\ pc = "acquire"
    /\ call.op = "wait_str"
    /\ ~call.tmo

----------------------------------------------------------------------------
(* C5 *)

\* a wait_str without timeout that stop() found blocked is blocked for good:
\* stop() has returned, the receiver has ended, no signal is pending
BlockedForGood ==
    /\ pc = "acquire"
    /\ call.op = "wait_str"
    /\ ~call.tmo
    /\ ~active
    /\ spc = "ret"
    /\ Finished
    /\ semaphore = 0

\* C5: a wait that stop() finds blocked returns, and returns true only if its
\* count was met.
C5_StopReleasesWait ==
    /\ ~BlockedForGood
    /\ (pc = "ret" /\ call.op = "wait_str" /\ ret = "True" /\ ~active)
          => Matching(call.string, w_begin \o w_new) >= call.count

----------------------------------------------------------------------------
(* C6 *)

\* the step with which stop() returns from an engine it found active
StopReturns == spc = "clear" /\ spc' = "ret"

\* C6: when stop() returns from an engine that was active, the engine is not
\* active, the connector is closed, the receiver thread has ended and the
\* buffer is empty; and an ended receiver stays ended and appends nothing.
C6_StopPostcondition ==
    [][ /\ StopReturns =>
            /\ ~active'
            /\ conn' = "closed"
            /\ Finished'
            /\ rx_buffer' = <<>>
        /\ Finished => (Finished' /\ Len(rx_buffer') <= Len(rx_buffer))
      ]_vars

\* stop(), called by the caller's own thread after a chunk was received, has
\* returned
C6_Witness ==
    /\ pc = "ret"
    /\ call.op = "stop"
    /\ spc = "ret"
    /\ nrecv > 0
    /\ rx_buffer = <<>>

----------------------------------------------------------------------------
(* C7 *)

\* the step that is a whole call of start()
StartStep == pc = "idle" /\ pc' = "ret" /\ call'.op = "start"

FailedToConnect == Logged("ER", "failed to connect")

----------------------------------------------------------------------------
(* C8 *)

\* the step with which a wait arms its request
Arms == pc = "arm" /\ pc' # "arm"

\* C8: when a wait arms its request no signal is pending.
C8_NoStaleSignal ==
    [][ Arms => semaphore = 0 ]_vars

----------------------------------------------------------------------------
(* C9 *)

\* C9: wait_any on a non-empty buffer returns true at once with found_str the
\* first entry; on an empty buffer it returns true only if something has
\* arrived since the call.
C9_WaitAnyContract ==
    [][ Returns("wait_any") =>
          IF w_begin' # <<>>
          THEN ret' = "True" /\ found_str' = Some(w_begin'[1]) /\ pc = "idle"
          ELSE ret' = "True" => (w_new' # <<>> \/ InFlight')
      ]_vars

----------------------------------------------------------------------------
(* C10 *)

----------------------------------------------------------------------------
(* C11 *)

WaitOps == {"wait_any", "wait_str", "wait_multi_str"}

\* the step with which a wait call returns true
ReturnsTrue ==
    pc # "ret" /\ pc' = "ret" /\ call'.op \in WaitOps /\ ret' = "True"

\* what the call waits for is among units
SatisfiedBy(c, units) ==
    CASE c.op = "wait_any" -> units # <<>>
      [] c.op = "wait_multi_str" -> HasMatch(c.strings, units)
      [] c.op = "wait_str" -> Matching(c.string, units) >= c.count
      [] OTHER -> FALSE

\* C11: with flush_before_wait set, a wait returns true only for units that
\* arrived after the call began (or that the receiver holds signalled and is
\* about to append), never for a unit that was buffered before the call.
C11_FlushBeforeWait ==
    [][ (ReturnsTrue /\ flush_before_wait) =>
            (SatisfiedBy(call', w_new') \/ InFlight')
      ]_vars

----------------------------------------------------------------------------
(* C12 *)

\* C12: when a wait returns true, found_str is a unit, and one that satisfies
\* the wait: it contains a target of wait_str / wait_multi_str; for wait_any it
\* is a unit that was received (buffered at the call or appended since).
C12_FoundStrOnTrue ==
    [][ ReturnsTrue =>
          /\ found_str' # None
          /\ CASE call'.op = "wait_str" -> In(call'.string, found_str'.val)
               [] call'.op = "wait_multi_str" ->
                      MatchesAny(call'.strings, found_str'.val)
               [] OTHER ->
                      \/ \E i \in 1 .. Len(w_begin' \o w_new') :
                            (w_begin' \o w_new')[i] = found_str'.val
                      \/ InFlight' /\ found_str'.val = lines'[1]
      ]_vars

----------------------------------------------------------------------------
(* C13 *)

\* C13: when a wait returns true, the buffer holds what it waited for (count
\* units with the target, a unit with one of the targets); a wait_any that
\* found the buffer empty has seen a chunk arrive since it began.
C13_TrueHasEntry ==
    [][ ReturnsTrue =>
          IF call'.op = "wait_any"
          THEN rx_buffer' # <<>> \/ w_new' # <<>> \/ InFlight' \/ rpc' = "crashed"
          ELSE SatisfiedBy(call', rx_buffer')
      ]_vars

----------------------------------------------------------------------------
(* C14 *)

\* the units of the chunk in hand that the receiver has yet to append
Pending ==
    CASE rpc \in {"line", "any_release", "any_found", "any_extend"} -> lines
      [] rpc \in {"match", "found", "release"} -> Tail(lines)
      [] OTHER -> <<>>

\* C14: every step of the receiver keeps the units it has taken from the
\* transport, in arrival order, as the buffer followed by what it has yet to
\* append: a received chunk adds its units at the end, and nothing is dropped,
\* doubled or moved.
C14_BufferKeepsArrivalOrder ==
    [][ (rpc' # rpc /\ rpc # "new") =>
          rx_buffer' \o Pending' =
              rx_buffer \o (IF rpc = "recv" THEN lines' ELSE Pending)
      ]_vars

----------------------------------------------------------------------------
(* C15 *)

\* the receiver has left its loop on the connector's None (stop() was never
\* called), and a wait without timeout that the buffer does not satisfy sits
\* on the semaphore with no signal pending: nothing will ever release it
BlockedAfterReceiveFailure ==
    /\ rpc = "done"
    /\ spc = "idle"
    /\ active
    /\ pc = "acquire"
    /\ ~call.tmo
    /\ semaphore = 0
    /\ ~SatisfiedBy(call, rx_buffer)

\* C15: after the receiver has ended on a receive failure, no wait is left
\* blocked for ever.
C15_ReceiveFailureEndsWait == ~BlockedAfterReceiveFailure

----------------------------------------------------------------------------
(* C16 *)

\* C16: once stop() has completed nothing makes the engine active again, and
\* a receiver is launched only once.
C16_StoppedIsTerminal ==
    [][ /\ (spc = "ret" /\ ~active) => ~active'
        /\ (rpc' = "started" /\ rpc # "started") => rpc = "new"
      ]_vars

----------------------------------------------------------------------------
(* C17 *)

\* the caller is not inside a wait call, or has not armed its request yet
NotArmed == pc \in {"idle", "ret", "stop", "find", "drain", "arm"}

\* C17: outside the armed part of a wait call self.wait_strings is empty, an
\* armed wait_str has its string as the only entry, and between two wait calls
\* the receiver releases no signal.
C17_WaitRequestCleared ==
    [][ /\ NotArmed' => wait_strings' = Some(<<>>)
        /\ (pc' \in {"check", "acquire", "reset"} /\ call'.op = "wait_str")
              => wait_strings' = Some(<<call'.string>>)
        /\ (pc \in {"idle", "ret"} /\ pc' \in {"idle", "ret"})
              => semaphore' <= semaphore
      ]_vars

----------------------------------------------------------------------------
(* C18 *)

\* C18: the receiver thread never ends on an exception.
C18_ReceiverNeverFails == rpc # "crashed"

----------------------------------------------------------------------------
(* C19 *)

\* C19: a unit enters the buffer in the step that logs it with the RX tag, one
\* unit at a time, and a signal is released only from the place that follows
\* the log, the append and the match of the unit in hand.
C19_LogAppendThenSignal ==
    [][ /\ (rx_buffer' # rx_buffer /\ rx_buffer' # <<>>) =>
              /\ rx_buffer' = Append(rx_buffer, Head(lines))
              /\ log' = LoggedRX(Head(lines))
        /\ semaphore' > semaphore => rpc = "release"
      ]_vars

----------------------------------------------------------------------------
(* C20 *)

\* the step that is a whole call of send / send_str
SendStep == pc = "idle" /\ pc' = "ret" /\ call'.op \in {"send", "send_str"}

\* C20: send / send_str log the payload with the TX tag first and return
\* normally; a failed forward is logged by the connector with an error tag.
C20_SendLogsAndAbsorbs ==
    [][ SendStep =>
          /\ Head(log') = Logged("TX", Payload)[1]
          /\ ret' = "None"
          /\ call'.failed => \E i \in 2 .. Len(log') : log'[i].info = "ER:tcp"
      ]_vars

====
